---- MODULE Spec2Model ----
(***************************************************************************)
(* Model of the residence-life survey dashboard (src/app/page.tsx).        *)
(*                                                                         *)
(* JavaScript strings that the code inspects (file names, labels, cell     *)
(* values, ids, messages) are sequences of one-character strings, so that  *)
(* trimming, the /(20\d{2})/ match, the extension strip, Number() and the  *)
(* id template are computed, not assumed.  Column names and index keys are *)
(* only ever compared for equality and are plain TLA+ strings.             *)
(* JavaScript numbers are exact rationals <<n, d>> in lowest terms.        *)
(***************************************************************************)
EXTENDS Integers, Sequences, FiniteSets, TLC

\* ---------------------------------------------------------------- bounds
MaxUploads == 2      \* FileReaders created over a run
MaxBatchLen == 2     \* files selected in one handleFileUpload call
MaxNow == 1          \* largest value Date.now() returns
MaxTrendLen == 2     \* datasets drawn for the comparator inputs
MaxRows == 2         \* rows of the dataset drawn for the aggregators
LongLen == 1002      \* files of the long batch

\* ------------------------------------------------------- null / undefined
\* Neither is a sequence of one-character strings, so neither equals a string.
NULL == <<"null">>
UNDEFINED == <<"undefined">>

IsNullish(v) == v = NULL \/ v = UNDEFINED

\* ----------------------------------------------------------------- chars
Digits == {"0","1","2","3","4","5","6","7","8","9"}

DigitVal(c) ==
  CASE c = "0" -> 0 [] c = "1" -> 1 [] c = "2" -> 2 [] c = "3" -> 3
    [] c = "4" -> 4 [] c = "5" -> 5 [] c = "6" -> 6 [] c = "7" -> 7
    [] c = "8" -> 8 [] c = "9" -> 9

DigitChar(n) ==
  CASE n = 0 -> "0" [] n = 1 -> "1" [] n = 2 -> "2" [] n = 3 -> "3"
    [] n = 4 -> "4" [] n = 5 -> "5" [] n = 6 -> "6" [] n = 7 -> "7"
    [] n = 8 -> "8" [] n = 9 -> "9"

WhiteSpace == {" ", "\t", "\n", "\r"}

\* String.prototype.trim
Trim(s) ==
  LET keep == {i \in 1..Len(s) : s[i] \notin WhiteSpace}
  IN IF keep = {} THEN <<>>
     ELSE LET lo == CHOOSE i \in keep : \A j \in keep : i <= j
              hi == CHOOSE i \in keep : \A j \in keep : j <= i
          IN SubSeq(s, lo, hi)

\* String(v ?? '').trim() as used for every categorical cell
TrimmedCell(v) == IF IsNullish(v) THEN <<>> ELSE Trim(v)

\* Decimal rendering of a natural number in a template literal
RECURSIVE NatToString(_)
NatToString(n) ==
  IF n < 10 THEN <<DigitChar(n)>>
  ELSE NatToString(n \div 10) \o <<DigitChar(n % 10)>>

\* parseInt(s, 10) of a string of decimal digits
RECURSIVE ParseDigits(_)
ParseDigits(s) ==
  IF s = <<>> THEN 0
  ELSE 10 * ParseDigits(SubSeq(s, 1, Len(s) - 1)) + DigitVal(s[Len(s)])

\* ------------------------------------------------------------- rationals
RECURSIVE GCD(_, _)
GCD(a, b) == IF b = 0 THEN a ELSE GCD(b, a % b)

Abs(x) == IF x < 0 THEN -x ELSE x

Rat(n, d) ==
  LET g == GCD(Abs(n), d)
  IN IF n = 0 THEN <<0, 1>> ELSE <<n \div g, d \div g>>

Zero == Rat(0, 1)
RatAdd(a, b) == Rat(a[1] * b[2] + b[1] * a[2], a[2] * b[2])
RatSub(a, b) == Rat(a[1] * b[2] - b[1] * a[2], a[2] * b[2])
RatDivNat(a, k) == Rat(a[1], a[2] * k)
RatLT(a, b) == a[1] * b[2] < b[1] * a[2]
RatLE(a, b) == a[1] * b[2] <= b[1] * a[2]
RatMax(a, b) == IF RatLT(a, b) THEN b ELSE a
RatMin(a, b) == IF RatLT(b, a) THEN b ELSE a

\* Number(x.toFixed(2)) for x >= 0: nearest hundredth, a tie taking the larger
ToFixed2(x) == Rat((200 * x[1] + x[2]) \div (2 * x[2]), 100)

\* ------------------------------------------------------------ Number(s)
\* NaN and the infinities are one value here: toLikert rejects both alike.
NotFinite == <<0, 0>>

RECURSIVE Pow10(_)
Pow10(k) == IF k = 0 THEN 1 ELSE 10 * Pow10(k - 1)

\* Number(s) for a trimmed non-empty s: an optional sign, then decimal digits
\* with an optional fraction ("3", "3.", "3.5", ".5").  Exponent, hex, octal
\* and binary literals are outside the modelled grammar and read as NaN.
ToNumber(s) ==
  LET signed == s # <<>> /\ s[1] \in {"+", "-"}
      body == IF signed THEN SubSeq(s, 2, Len(s)) ELSE s
      dots == {i \in 1..Len(body) : body[i] = "."}
      ok == /\ body # <<>>
            /\ \A i \in 1..Len(body) : body[i] \in Digits \cup {"."}
            /\ Cardinality(dots) <= 1
            /\ \E i \in 1..Len(body) : body[i] \in Digits
  IN IF ~ok THEN NotFinite
     ELSE LET dot == IF dots = {} THEN Len(body) + 1 ELSE CHOOSE i \in dots : TRUE
              ip == SubSeq(body, 1, dot - 1)
              fp == SubSeq(body, dot + 1, Len(body))
              mag == Rat(ParseDigits(ip) * Pow10(Len(fp)) + ParseDigits(fp),
                         Pow10(Len(fp)))
          IN IF signed /\ s[1] = "-" THEN Rat(-mag[1], mag[2]) ELSE mag

\* ------------------------------------------------------ survey catalogue
COL_BUILDING == "Which building do you currently live in?"
COL_CLASS_YEAR == "What is your current class year?"
COL_RA_ASSIGNED == "Do you have a Resident Assistant (RA) assigned to your community?"

\* Open-ended columns
COL_POSITIVE == "What has been the most positive aspect of your residence hall experience?"
COL_IMPROVE == "What would most improve your satisfaction or sense of belonging?"
COL_COMMENTS == "Any additional comments for Residence Life staff?"

INDEXES == <<
  [ key |-> "livingEnvironment",
    label |-> "Living Environment",
    questions |-> <<
        "My residence hall feels like a safe environment.",
        "I feel comfortable walking in and around my hall, even at night.",
        "My hall provides a welcoming and inclusive community.",
        "Physical facilities (cleanliness, maintenance, common spaces) meet my needs.",
        "Amenities (lounges, study areas, kitchens) are adequate and usable.",
        "Community events and programs contribute to my sense of belonging." >>,
    hasRowFilter |-> FALSE ],
  [ key |-> "belonging",
    label |-> "Belonging & Connection",
    questions |-> <<
        "I feel a strong sense of belonging in my residence hall.",
        "I have developed meaningful friendships within my hall.",
        "People in my hall notice when I am not around.",
        "I feel that my presence and participation matter to others in my community.",
        "I feel comfortable expressing my identity in my residence hall.",
        "My hall environment makes it easy to meet and connect with others." >>,
    hasRowFilter |-> FALSE ],
  [ key |-> "raSupport",
    label |-> "RA Support",
    questions |-> <<
        "My RA is approachable and easy to contact.",
        "My RA keeps me informed about hall policies, resources, and events.",
        "My RA supports my personal and academic success.",
        "My RA responds to my needs in a timely manner.",
        "My RA encourages community connection and belonging.",
        "I feel comfortable seeking assistance from my RA when needed." >>,
    hasRowFilter |-> TRUE ],
  [ key |-> "staff",
    label |-> "Professional Staff",
    questions |-> <<
        "Professional staff are visible and accessible in my hall.",
        "Professional staff respond effectively to student concerns.",
        "Professional staff follow up after issues are reported.",
        "Professional staff promote an inclusive and welcoming environment.",
        "I have opportunities to share feedback with professional staff.",
        "I believe my opinions are considered in hall-level decisions." >>,
    hasRowFilter |-> FALSE ],
  [ key |-> "empowerment",
    label |-> "Empowerment & Development",
    questions |-> <<
        "I feel empowered to make decisions that affect my residential experience.",
        "Living on campus helps me reflect on my personal values and goals.",
        "When I disagree with staff or policies, I feel comfortable expressing my perspective.",
        "My experiences in the hall have helped me become more independent and confident." >>,
    hasRowFilter |-> FALSE ],
  [ key |-> "overallExperience",
    label |-> "Overall Experience",
    questions |-> <<
        "Living in on-campus housing has positively impacted my USF experience.",
        "I would recommend living on campus to other students.",
        "If given the option, I would choose to live on campus again.",
        "Because of my residential experience, I feel more connected to the broader USF community." >>,
    hasRowFilter |-> FALSE ] >>

IndexKeys == {INDEXES[i].key : i \in 1..Len(INDEXES)}

\* The entries of the trend selector that the runs pick
TrendKeys == {"overallExperience", "raSupport"}

\* row[col]: a column the row lacks reads as undefined
Cell(row, col) == IF col \in DOMAIN row THEN row[col] ELSE UNDEFINED

\* The rowFilter of the raSupport entry of INDEXES
rowFilter(row) == TrimmedCell(Cell(row, COL_RA_ASSIGNED)) = <<"Y","e","s">>

\* ------------------------------------------------------------ aggregation
\* toLikert with the range test n < 0 || n > 5
toLikert_FromZero(value) ==
  IF IsNullish(value) THEN NULL
  ELSE LET s == Trim(value)
       IN IF s = <<>> THEN NULL
          ELSE LET n == ToNumber(s)
               IN IF n = NotFinite THEN NULL
                  ELSE IF RatLT(n, Zero) \/ RatLT(Rat(5, 1), n) THEN NULL
                  ELSE n

toLikert(value) ==
  IF IsNullish(value) THEN NULL
  ELSE LET s == Trim(value)
       IN IF s = <<>> THEN NULL
          ELSE LET n == ToNumber(s)
               IN IF n = NotFinite THEN NULL
                  ELSE IF RatLT(n, Rat(1, 1)) \/ RatLT(Rat(5, 1), n) THEN NULL
                  ELSE n

\* The rows.forEach body of computeQuestionMeans: <<sum, count>> over rows[1..k]
RECURSIVE SumCount(_, _, _, _)
SumCount(rows, q, filtered, k) ==
  IF k = 0 THEN <<Zero, 0>>
  ELSE LET acc == SumCount(rows, q, filtered, k - 1)
           row == rows[k]
       IN IF filtered /\ ~rowFilter(row) THEN acc
          ELSE LET score == toLikert(Cell(row, q))
               IN IF score # NULL THEN <<RatAdd(acc[1], score), acc[2] + 1>>
                  ELSE acc

\* computeQuestionMeans leaving out the questions nobody answered
computeQuestionMeans_DropsUnanswered(rows, questions, filtered) ==
  LET Answered(q) == SumCount(rows, q, filtered, Len(rows))[2] > 0
      kept == SelectSeq(questions, Answered)
  IN [i \in 1..Len(kept) |->
        LET sc == SumCount(rows, kept[i], filtered, Len(rows))
        IN [question |-> kept[i], mean |-> RatDivNat(sc[1], sc[2])]]

computeQuestionMeans(rows, questions, filtered) ==
  [i \in 1..Len(questions) |->
     LET sc == SumCount(rows, questions[i], filtered, Len(rows))
     IN [question |-> questions[i],
         mean |-> IF sc[2] > 0 THEN RatDivNat(sc[1], sc[2]) ELSE Zero]]

RECURSIVE SumSeq(_)
SumSeq(s) == IF s = <<>> THEN Zero ELSE RatAdd(SumSeq(Tail(s)), Head(s))

IsPositive(m) == RatLT(Zero, m)

\* computeIndexScores applying the RA eligibility filter to every index
computeIndexScores_FilterEveryIndex(rows) ==
  [i \in 1..Len(INDEXES) |->
     LET idx == INDEXES[i]
         qs == computeQuestionMeans(rows, idx.questions, TRUE)
         validMeans == SelectSeq([j \in 1..Len(qs) |-> qs[j].mean], IsPositive)
     IN [key |-> idx.key,
         label |-> idx.label,
         mean |-> IF Len(validMeans) > 0
                  THEN RatDivNat(SumSeq(validMeans), Len(validMeans))
                  ELSE Zero]]

\* computeIndexScores averaging over all question means, the zeros included
computeIndexScores_CountsZeros(rows) ==
  [i \in 1..Len(INDEXES) |->
     LET idx == INDEXES[i]
         qs == computeQuestionMeans(rows, idx.questions, idx.hasRowFilter)
         means == [j \in 1..Len(qs) |-> qs[j].mean]
     IN [key |-> idx.key,
         label |-> idx.label,
         mean |-> IF Len(means) > 0
                  THEN RatDivNat(SumSeq(means), Len(means))
                  ELSE Zero]]

computeIndexScores(rows) ==
  [i \in 1..Len(INDEXES) |->
     LET idx == INDEXES[i]
         qs == computeQuestionMeans(rows, idx.questions, idx.hasRowFilter)
         validMeans == SelectSeq([j \in 1..Len(qs) |-> qs[j].mean], IsPositive)
     IN [key |-> idx.key,
         label |-> idx.label,
         mean |-> IF Len(validMeans) > 0
                  THEN RatDivNat(SumSeq(validMeans), Len(validMeans))
                  ELSE Zero]]

ALL == <<"A","L","L">>

\* filterRowsByHall taking rows[0] for a header line and skipping it
filterRowsByHall_SkipsFirstRow(rows, hall) ==
  LET InHall(r) == hall = ALL \/ TrimmedCell(Cell(r, COL_BUILDING)) = hall
  IN SelectSeq(IF rows = <<>> THEN rows ELSE Tail(rows), InHall)

\* filterRowsByHall comparing the cell as it stands, without trim()
filterRowsByHall_Untrimmed(rows, hall) ==
  IF hall = ALL THEN rows
  ELSE LET InHall(r) == Cell(r, COL_BUILDING) = hall
       IN SelectSeq(rows, InHall)

filterRowsByHall(rows, hall) ==
  IF hall = ALL THEN rows
  ELSE LET InHall(r) == TrimmedCell(Cell(r, COL_BUILDING)) = hall
       IN SelectSeq(rows, InHall)

\* ---------------------------------------------------------------- labels
\* Position of the first match of /(20\d{2})/ in s, or 0
YearMatch(s) ==
  LET hits == {i \in 1..(Len(s) - 3) :
                 /\ s[i] = "2" /\ s[i + 1] = "0"
                 /\ s[i + 2] \in Digits /\ s[i + 3] \in Digits}
  IN IF hits = {} THEN 0 ELSE CHOOSE i \in hits : \A j \in hits : i <= j

\* fileName.replace(/\.[^/.]+$/, '')
StripExtension(s) ==
  LET cut == {i \in 1..(Len(s) - 1) :
                /\ s[i] = "."
                /\ \A j \in (i + 1)..Len(s) : s[j] \notin {"/", "."}}
  IN IF cut = {} THEN s ELSE SubSeq(s, 1, (CHOOSE i \in cut : TRUE) - 1)

inferDatasetLabel(fileName) ==
  LET m == YearMatch(fileName)
  IN IF m # 0
     THEN SubSeq(fileName, m, m + 3) \o <<" ","S","u","r","v","e","y">>
     ELSE LET base == StripExtension(fileName)
          IN IF base # <<>> THEN base
             ELSE <<"U","p","l","o","a","d","e","d"," ","S","u","r","v","e","y">>

extractYearOrOrder(label, fallbackIndex) ==
  LET m == YearMatch(label)
  IN IF m # 0 THEN ParseDigits(SubSeq(label, m, m + 3))
     ELSE 1000 + fallbackIndex

\* ----------------------------------------------------------------- inputs
Q_OVERALL == INDEXES[6].questions[1]
Q_RA == INDEXES[3].questions[1]
HALL_A == <<"H","a","l","l"," ","A">>
HALL_B == <<"H","a","l","l"," ","B">>
YES == <<"Y","e","s">>
NO == <<"N","o">>

\* One parsed CSV row with a building, an RA answer and two Likert cells
SurveyRow(building, ra, overall, raScore) ==
  (COL_BUILDING :> building) @@ (COL_RA_ASSIGNED :> ra)
    @@ (Q_OVERALL :> overall) @@ (Q_RA :> raScore)

\* parsed.data of the demo CSV (public/fake_reslife_dataset.csv, not in src/)
DemoRows ==
  << SurveyRow(HALL_A, YES, <<"4">>, <<"5">>),
     SurveyRow(HALL_B, NO, <<"2">>, <<"3">>) >>

\* The files the user can pick: name and the rows Papa.parse yields for it
FILE_2026 ==
  [ name |-> <<"R","e","s","L","i","f","e","_","2","0","2","6",".","c","s","v">>,
    rows |-> << SurveyRow(HALL_A, YES, <<"5">>, <<"4">>),
                SurveyRow(<<" ">> \o HALL_A, NO, <<"3">>, <<"1">>) >> ]
FILE_NOTES ==
  [ name |-> <<"n","o","t","e","s",".","c","s","v">>,
    rows |-> << SurveyRow(HALL_B, <<>>, <<"2">>, <<>>) >> ]

Files == {FILE_2026, FILE_NOTES}

RECURSIVE SeqsUpTo(_, _)
SeqsUpTo(S, n) ==
  IF n = 0 THEN {<<>>}
  ELSE LET shorter == SeqsUpTo(S, n - 1)
       IN shorter \cup {Append(s, x) : s \in {t \in shorter : Len(t) = n - 1}, x \in S}

IsInjective(s) == \A i, j \in 1..Len(s) : s[i] = s[j] => i = j

\* What one file dialog can hand over: distinct files of one directory
Batches == {s \in SeqsUpTo(Files, MaxBatchLen) : IsInjective(s)}

\* ------------------------------------------------------------------ state
VARIABLES
  datasets,          \* useState<Dataset[]>
  activeDatasetId,   \* useState<string | null>
  hallFilter,        \* useState<string>
  viewMode,          \* useState<ViewMode>
  loadingDemo,       \* useState<boolean>
  error,             \* useState<string | null>
  uploadError,       \* useState<string | null>
  trendIndexKey,     \* useState<IndexKey>
  demoPc,            \* where loadDemo stands: mount, fetch, text, loaded, failed
  readers,           \* FileReaders whose readAsText has not completed
  started,           \* FileReaders created so far
  now                \* the latest value Date.now() returned

vars == <<datasets, activeDatasetId, hallFilter, viewMode, loadingDemo, error,
          uploadError, trendIndexKey, demoPc, readers, started, now>>

DEMO_ID == <<"d","e","m","o">>

demoDataset ==
  [ id |-> DEMO_ID,
    label |-> <<"D","e","m","o"," ","S","u","r","v","e","y"," ","(","e","x","a","m","p","l","e"," ","d","a","t","a",")">>,
    rows |-> DemoRows,
    source |-> "demo" ]

\* `${file.name}-${Date.now()}-${idx}`
DatasetId(name, time, idx) ==
  name \o <<"-">> \o NatToString(time) \o <<"-">> \o NatToString(idx)

newDataset(file, time, idx) ==
  [ id |-> DatasetId(file.name, time, idx),
    label |-> inferDatasetLabel(file.name),
    rows |-> file.rows,
    source |-> "upload" ]

Ids(ds) == {ds[i].id : i \in 1..Len(ds)}
Range(s) == {s[i] : i \in 1..Len(s)}

\* The "no dataset" value of a Dataset | null expression
NoDataset == [id |-> NULL, label |-> NULL, rows |-> <<>>, source |-> "null"]

\* Array.prototype.find by id: the first match, or NoDataset
FindById(ds, id) ==
  LET hits == {i \in 1..Len(ds) : ds[i].id = id}
  IN IF hits = {} THEN NoDataset
     ELSE ds[CHOOSE i \in hits : \A j \in hits : i <= j]

\* ---------------------------------------------------------- derived values
\* activeDataset returning null for a single dataset too
activeDataset_NullBelowTwo ==
  IF Len(datasets) < 2 THEN NoDataset
  ELSE IF activeDatasetId # NULL /\ FindById(datasets, activeDatasetId) # NoDataset
       THEN FindById(datasets, activeDatasetId)
       ELSE datasets[1]

activeDataset ==
  IF Len(datasets) = 0 THEN NoDataset
  ELSE IF activeDatasetId # NULL /\ FindById(datasets, activeDatasetId) # NoDataset
       THEN FindById(datasets, activeDatasetId)
       ELSE datasets[1]

\* The halls offered by the filter dropdown (the code also sorts them)
hallOptions ==
  UNION {{TrimmedCell(Cell(datasets[i].rows[j], COL_BUILDING)) :
            j \in 1..Len(datasets[i].rows)} : i \in 1..Len(datasets)} \ {<<>>}

filteredRows ==
  IF activeDataset = NoDataset THEN <<>>
  ELSE filterRowsByHall(activeDataset.rows, hallFilter)

\* map[ds.id] = ...: a later dataset with the same id overwrites an earlier one
indexScoresByDataset ==
  [id \in Ids(datasets) |->
     LET last == CHOOSE i \in 1..Len(datasets) :
                   /\ datasets[i].id = id
                   /\ \A j \in 1..Len(datasets) : datasets[j].id = id => j <= i
     IN computeIndexScores(filterRowsByHall(datasets[last].rows, hallFilter))]

\* perIndexQuestions calling computeQuestionMeans without idx.rowFilter
perIndexQuestions_NoRowFilter ==
  [key \in IndexKeys |->
     LET idx == INDEXES[CHOOSE i \in 1..Len(INDEXES) : INDEXES[i].key = key]
     IN computeQuestionMeans(filteredRows, idx.questions, FALSE)]

\* result[idx.key] = computeQuestionMeans(filteredRows, idx.questions, idx.rowFilter)
perIndexQuestions ==
  [key \in IndexKeys |->
     LET idx == INDEXES[CHOOSE i \in 1..Len(INDEXES) : INDEXES[i].key = key]
     IN computeQuestionMeans(filteredRows, idx.questions, idx.hasRowFilter)]

activeIndexScores ==
  IF activeDataset = NoDataset THEN <<>>
  ELSE indexScoresByDataset[activeDataset.id]

\* The filteredRows.forEach body of raYesRate: <<yes, total>> over rows[1..k]
RECURSIVE YesTotal(_, _)
YesTotal(rows, k) ==
  IF k = 0 THEN <<0, 0>>
  ELSE LET acc == YesTotal(rows, k - 1)
           v == TrimmedCell(Cell(rows[k], COL_RA_ASSIGNED))
       IN IF v = <<>> THEN acc
          ELSE <<acc[1] + (IF v = <<"Y","e","s">> THEN 1 ELSE 0), acc[2] + 1>>

\* raYesRate dividing by the number of rows shown
raYesRate_OverAllRows ==
  IF Len(filteredRows) = 0 THEN Zero
  ELSE Rat(YesTotal(filteredRows, Len(filteredRows))[1], Len(filteredRows))

raYesRate ==
  IF Len(filteredRows) = 0 THEN Zero
  ELSE LET yt == YesTotal(filteredRows, Len(filteredRows))
       IN IF yt[2] > 0 THEN Rat(yt[1], yt[2]) ELSE Zero

\* The rows.forEach body of sampleText: vals after rows[1..k]
RECURSIVE SampleVals(_, _, _, _)
SampleVals(rows, colName, max, k) ==
  IF k = 0 THEN <<>>
  ELSE LET vals == SampleVals(rows, colName, max, k - 1)
           v == TrimmedCell(Cell(rows[k], colName))
       IN IF v # <<>> /\ Len(vals) < max /\ v \notin Range(vals)
          THEN Append(vals, v)
          ELSE vals

\* sampleText with the cap test vals.length <= max
sampleText_CapOffByOne(rows, colName, max) == SampleVals(rows, colName, max + 1, Len(rows))

sampleText(rows, colName, max) == SampleVals(rows, colName, max, Len(rows))

positiveSamples == sampleText(filteredRows, COL_POSITIVE, 5)
improveSamples == sampleText(filteredRows, COL_IMPROVE, 5)
commentSamples == sampleText(filteredRows, COL_COMMENTS, 5)

\* scores.find((s) => s.key === key)?.mean ?? 0
MeanOf(scores, key) ==
  LET hits == {i \in 1..Len(scores) : scores[i].key = key}
  IN IF hits = {} THEN Zero ELSE scores[CHOOSE i \in hits : \A j \in hits : i <= j].mean

INDEX_KEY == <<"i","n","d","e","x">>

\* row[ds.label] = ... for datasets[1..k], on top of { index: idx.label }
RECURSIVE ComparisonRow(_, _)
ComparisonRow(idx, k) ==
  IF k = 0 THEN (INDEX_KEY :> idx.label)
  ELSE LET row == ComparisonRow(idx, k - 1)
           ds == datasets[k]
           score == ToFixed2(MeanOf(indexScoresByDataset[ds.id], idx.key))
       IN [key \in DOMAIN row \cup {ds.label} |->
             IF key = ds.label THEN score ELSE row[key]]

comparisonData ==
  IF Len(datasets) < 2 THEN <<>>
  ELSE [i \in 1..Len(INDEXES) |-> ComparisonRow(INDEXES[i], Len(datasets))]

\* Array.prototype.sort with (a, b) => a.order - b.order: stable
RECURSIVE InsertByOrder(_, _)
InsertByOrder(sorted, r) ==
  IF sorted = <<>> THEN <<r>>
  ELSE IF sorted[Len(sorted)].order <= r.order THEN Append(sorted, r)
  ELSE Append(InsertByOrder(SubSeq(sorted, 1, Len(sorted) - 1), r), sorted[Len(sorted)])

RECURSIVE SortByOrder(_)
SortByOrder(s) ==
  IF s = <<>> THEN <<>>
  ELSE InsertByOrder(SortByOrder(SubSeq(s, 1, Len(s) - 1)), s[Len(s)])

HasScore(r) == RatLT(Zero, r.score)

\* trendLineData with the guard datasets.length < 1
trendLineData_FromOne ==
  IF Len(datasets) < 1 THEN <<>>
  ELSE LET rows == [i \in 1..Len(datasets) |->
                      [ datasetLabel |-> datasets[i].label,
                        order |-> extractYearOrOrder(datasets[i].label, i - 1),
                        score |-> ToFixed2(MeanOf(indexScoresByDataset[datasets[i].id],
                                                  trendIndexKey)) ]]
       IN SortByOrder(SelectSeq(rows, HasScore))

\* trendLineData without the rows.sort call
trendLineData_Unsorted ==
  IF Len(datasets) < 2 THEN <<>>
  ELSE LET rows == [i \in 1..Len(datasets) |->
                      [ datasetLabel |-> datasets[i].label,
                        order |-> extractYearOrOrder(datasets[i].label, i - 1),
                        score |-> ToFixed2(MeanOf(indexScoresByDataset[datasets[i].id],
                                                  trendIndexKey)) ]]
       IN SelectSeq(rows, HasScore)

trendLineData ==
  IF Len(datasets) < 2 THEN <<>>
  ELSE LET rows == [i \in 1..Len(datasets) |->
                      [ datasetLabel |-> datasets[i].label,
                        order |-> extractYearOrOrder(datasets[i].label, i - 1),
                        score |-> ToFixed2(MeanOf(indexScoresByDataset[datasets[i].id],
                                                  trendIndexKey)) ]]
       IN SortByOrder(SelectSeq(rows, HasScore))

RECURSIVE MinScore(_)
MinScore(s) == IF Len(s) = 1 THEN s[1].score ELSE RatMin(s[1].score, MinScore(Tail(s)))
RECURSIVE MaxScore(_)
MaxScore(s) == IF Len(s) = 1 THEN s[1].score ELSE RatMax(s[1].score, MaxScore(Tail(s)))

\* trendDomain returning [min - pad, max + pad] without the clamps
trendDomain_NoClamp ==
  IF Len(trendLineData) = 0 THEN <<Rat(1, 1), Rat(5, 1)>>
  ELSE LET pad == Rat(2, 10)
       IN << RatSub(MinScore(trendLineData), pad),
             RatAdd(MaxScore(trendLineData), pad) >>

trendDomain ==
  IF Len(trendLineData) = 0 THEN <<Rat(1, 1), Rat(5, 1)>>
  ELSE LET pad == Rat(2, 10)
       IN << RatMax(Rat(1, 1), RatSub(MinScore(trendLineData), pad)),
             RatMin(Rat(5, 1), RatAdd(MaxScore(trendLineData), pad)) >>

\* ---------------------------------------------------------------- messages
DEMO_NOT_OK ==
  <<"C","o","u","l","d"," ","n","o","t"," ","l","o","a","d"," ","f","a","k","e","_","r","e","s","l","i","f","e","_","d","a","t","a","s","e","t",".","c","s","v","."," ","M","a","k","e"," ","s","u","r","e"," ","i","t"," ","i","s"," ","i","n"," ","y","o","u","r"," ","/","p","u","b","l","i","c"," ","f","o","l","d","e","r",".">>
DEMO_FALLBACK ==
  <<"F","a","i","l","e","d"," ","t","o"," ","l","o","a","d"," ","d","e","m","o"," ","d","a","t","a","s","e","t">>
\* message of what fetch or res.text() rejects with
FETCH_REJECTED == <<"F","a","i","l","e","d"," ","t","o"," ","f","e","t","c","h">>

\* `Could not read file "${file.name}".`
ReadErrorMessage(name) ==
  <<"C","o","u","l","d"," ","n","o","t"," ","r","e","a","d"," ","f","i","l","e"," ","\"">>
    \o name \o <<"\"",".">>

\* `Failed to parse file "${file.name}". Make sure it's a CSV export from Google Forms.`
ParseErrorMessage(name) ==
  <<"F","a","i","l","e","d"," ","t","o"," ","p","a","r","s","e"," ","f","i","l","e"," ","\"">>
    \o name
    \o <<"\"","."," ","M","a","k","e"," ","s","u","r","e"," ","i","t","'","s"," ","a"," ","C","S","V"," ","e","x","p","o","r","t"," ","f","r","o","m"," ","G","o","o","g","l","e"," ","F","o","r","m","s",".">>

\* ------------------------------------------------------------------- Init
Init ==
  /\ datasets = <<>>
  /\ activeDatasetId = NULL
  /\ hallFilter = ALL
  /\ viewMode = "overview"
  /\ loadingDemo = FALSE
  /\ error = NULL
  /\ uploadError = NULL
  /\ trendIndexKey = "overallExperience"
  /\ demoPc = "mount"
  /\ readers = {}
  /\ started = 0
  /\ now = 0

\* ---------------------------------------------------------------- loadDemo
\* The mount effect runs loadDemo up to its first await.
loadDemoStart ==
  /\ demoPc = "mount"
  /\ loadingDemo' = TRUE
  /\ demoPc' = "fetch"
  /\ UNCHANGED <<datasets, activeDatasetId, hallFilter, viewMode, error,
                 uploadError, trendIndexKey, readers, started, now>>

\* fetch resolved with res.ok: loadDemo runs up to await res.text().
loadDemoResponseOk ==
  /\ demoPc = "fetch"
  /\ demoPc' = "text"
  /\ UNCHANGED <<datasets, activeDatasetId, hallFilter, viewMode, loadingDemo,
                 error, uploadError, trendIndexKey, readers, started, now>>

\* res.text() resolved and Papa.parse returned: the rest of the try, then finally.
loadDemoSuccess ==
  /\ demoPc = "text"
  /\ datasets' = <<demoDataset>>
  /\ activeDatasetId' = DEMO_ID
  /\ loadingDemo' = FALSE
  /\ demoPc' = "loaded"
  /\ UNCHANGED <<hallFilter, viewMode, error, uploadError, trendIndexKey,
                 readers, started, now>>

\* loadDemoCatch without the finally block
loadDemoCatch_NoFinally(message) ==
  /\ error' = IF IsNullish(message) THEN DEMO_FALLBACK ELSE message
  /\ demoPc' = "failed"
  /\ UNCHANGED <<datasets, activeDatasetId, hallFilter, viewMode, loadingDemo,
                 uploadError, trendIndexKey, readers, started, now>>

\* loadDemoCatch without the setError call
loadDemoCatch_NoSetError(message) ==
  /\ loadingDemo' = FALSE
  /\ demoPc' = "failed"
  /\ UNCHANGED <<datasets, activeDatasetId, hallFilter, viewMode, error,
                 uploadError, trendIndexKey, readers, started, now>>

\* catch and finally.  message is e.message: DEMO_NOT_OK for a response that is
\* not ok, else what fetch, res.text() or Papa.parse threw (possibly nothing).
loadDemoCatch(message) ==
  /\ error' = IF IsNullish(message) THEN DEMO_FALLBACK ELSE message
  /\ loadingDemo' = FALSE
  /\ demoPc' = "failed"
  /\ UNCHANGED <<datasets, activeDatasetId, hallFilter, viewMode, uploadError,
                 trendIndexKey, readers, started, now>>

loadDemoFailure ==
  \/ /\ demoPc = "fetch"
     /\ \E message \in {DEMO_NOT_OK, FETCH_REJECTED, UNDEFINED} : loadDemoCatch(message)
  \/ /\ demoPc = "text"
     /\ \E message \in {FETCH_REJECTED, UNDEFINED} : loadDemoCatch(message)

\* ------------------------------------------------------------ UI handlers
handleHallFilterChange(value) ==
  /\ Len(datasets) > 0
  /\ value \in {ALL} \cup hallOptions
  /\ hallFilter' = value
  /\ UNCHANGED <<datasets, activeDatasetId, viewMode, loadingDemo, error,
                 uploadError, trendIndexKey, demoPc, readers, started, now>>

handleDatasetTabClick(id) ==
  /\ id \in Ids(datasets)
  /\ activeDatasetId' = id
  /\ UNCHANGED <<datasets, hallFilter, viewMode, loadingDemo, error,
                 uploadError, trendIndexKey, demoPc, readers, started, now>>

setViewMode(mode) ==
  /\ Len(datasets) > 0
  /\ viewMode' = mode
  /\ UNCHANGED <<datasets, activeDatasetId, hallFilter, loadingDemo, error,
                 uploadError, trendIndexKey, demoPc, readers, started, now>>

setTrendIndexKey(key) ==
  /\ viewMode = "comparisons"
  /\ Len(datasets) > 1
  /\ trendIndexKey' = key
  /\ UNCHANGED <<datasets, activeDatasetId, hallFilter, viewMode, loadingDemo,
                 error, uploadError, demoPc, readers, started, now>>

\* ------------------------------------------------------------------ upload
\* handleFileUpload: one FileReader per file, each remembering file and idx.
handleFileUpload(files) ==
  /\ started + Len(files) <= MaxUploads
  /\ started' = started + Len(files)
  /\ uploadError' = NULL
  /\ readers' = readers \cup
       {[reader |-> started + i, idx |-> i - 1, file |-> files[i]] : i \in 1..Len(files)}
  /\ UNCHANGED <<datasets, activeDatasetId, hallFilter, viewMode, loadingDemo,
                 error, trendIndexKey, demoPc, now>>

\* readerOnloadParsed with setDatasets((prev) => [newDataset, ...prev])
readerOnloadParsed_Prepends(r, time) ==
  /\ r \in readers
  /\ readers' = readers \ {r}
  /\ time >= now
  /\ now' = time
  /\ LET ds == newDataset(r.file, time, r.idx)
     IN /\ datasets' = <<ds>> \o datasets
        /\ activeDatasetId' = IF activeDatasetId # NULL THEN activeDatasetId ELSE ds.id
  /\ UNCHANGED <<hallFilter, viewMode, loadingDemo, error, uploadError,
                 trendIndexKey, demoPc, started>>

\* reader.onload, Papa.parse returning
readerOnloadParsed(r, time) ==
  /\ r \in readers
  /\ readers' = readers \ {r}
  /\ time >= now
  /\ now' = time
  /\ LET ds == newDataset(r.file, time, r.idx)
     IN /\ datasets' = Append(datasets, ds)
        /\ activeDatasetId' = IF activeDatasetId # NULL THEN activeDatasetId ELSE ds.id
  /\ UNCHANGED <<hallFilter, viewMode, loadingDemo, error, uploadError,
                 trendIndexKey, demoPc, started>>

\* reader.onload, the try block throwing before the setters
readerOnloadThrows(r) ==
  /\ r \in readers
  /\ readers' = readers \ {r}
  /\ uploadError' = ParseErrorMessage(r.file.name)
  /\ UNCHANGED <<datasets, activeDatasetId, hallFilter, viewMode, loadingDemo,
                 error, trendIndexKey, demoPc, started, now>>

\* readerOnerror giving up the rest of the pending reads as well
readerOnerror_AbortsOthers(r) ==
  /\ r \in readers
  /\ readers' = {}
  /\ uploadError' = ReadErrorMessage(r.file.name)
  /\ UNCHANGED <<datasets, activeDatasetId, hallFilter, viewMode, loadingDemo,
                 error, trendIndexKey, demoPc, started, now>>

readerOnerror(r) ==
  /\ r \in readers
  /\ readers' = readers \ {r}
  /\ uploadError' = ReadErrorMessage(r.file.name)
  /\ UNCHANGED <<datasets, activeDatasetId, hallFilter, viewMode, loadingDemo,
                 error, trendIndexKey, demoPc, started, now>>

\* ---------------------------------------------------------------- deletion
\* deleteDataset without the setActiveDatasetId call
deleteDataset_KeepsActiveId(id, confirmed) ==
  LET ds == FindById(datasets, id)
      IsOther(d) == d.id # id
      next == SelectSeq(datasets, IsOther)
  IN IF ds = NoDataset \/ ds.source = "demo" \/ ~confirmed
     THEN UNCHANGED vars
     ELSE /\ datasets' = next
          /\ UNCHANGED <<activeDatasetId, hallFilter, viewMode, loadingDemo, error,
                         uploadError, trendIndexKey, demoPc, readers, started, now>>

\* deleteDataset without the ds.source === 'demo' guard
deleteDataset_NoDemoGuard(id, confirmed) ==
  LET ds == FindById(datasets, id)
      IsOther(d) == d.id # id
      next == SelectSeq(datasets, IsOther)
  IN IF ds = NoDataset \/ ~confirmed
     THEN UNCHANGED vars
     ELSE /\ datasets' = next
          /\ activeDatasetId' = IF activeDatasetId = id
                                THEN (IF Len(next) > 0 THEN next[1].id ELSE NULL)
                                ELSE activeDatasetId
          /\ UNCHANGED <<hallFilter, viewMode, loadingDemo, error, uploadError,
                         trendIndexKey, demoPc, readers, started, now>>

\* confirmed is the answer window.confirm gives when it is asked.
deleteDataset(id, confirmed) ==
  LET ds == FindById(datasets, id)
      IsOther(d) == d.id # id
      next == SelectSeq(datasets, IsOther)
  IN IF ds = NoDataset \/ ds.source = "demo" \/ ~confirmed
     THEN UNCHANGED vars
     ELSE /\ datasets' = next
          /\ activeDatasetId' = IF activeDatasetId = id
                                THEN (IF Len(next) > 0 THEN next[1].id ELSE NULL)
                                ELSE activeDatasetId
          /\ UNCHANGED <<hallFilter, viewMode, loadingDemo, error, uploadError,
                         trendIndexKey, demoPc, readers, started, now>>

\* An id no upload can carry: it has no "-"
ABSENT_ID == <<"x">>

\* -------------------------------------------------------------------- Next
Next ==
  \/ loadDemoStart
  \/ loadDemoResponseOk
  \/ loadDemoSuccess
  \/ loadDemoFailure
  \/ \E value \in {ALL, HALL_A, HALL_B} : handleHallFilterChange(value)
  \/ \E id \in Ids(datasets) : handleDatasetTabClick(id)
  \/ \E mode \in {"overview", "comparisons"} : setViewMode(mode)
  \/ \E key \in TrendKeys : setTrendIndexKey(key)
  \/ \E files \in Batches : handleFileUpload(files)
  \/ \E r \in readers, time \in 0..MaxNow : readerOnloadParsed(r, time)
  \/ \E r \in readers : readerOnloadThrows(r)
  \/ \E r \in readers : readerOnerror(r)
  \/ \E id \in Ids(datasets) \cup {DEMO_ID, ABSENT_ID}, confirmed \in BOOLEAN :
       deleteDataset(id, confirmed)

Spec == Init /\ [][Next]_vars

TypeOK ==
  /\ demoPc \in {"mount", "fetch", "text", "loaded", "failed"}
  /\ loadingDemo \in BOOLEAN
  /\ viewMode \in {"overview", "comparisons"}
  /\ trendIndexKey \in IndexKeys
  /\ started \in 0..MaxUploads
  /\ now \in 0..MaxNow
  /\ \A i \in 1..Len(datasets) : datasets[i].source \in {"demo", "upload"}

\* ================================================================= claims
HasDemo(ds) == \E i \in 1..Len(ds) : ds[i].source = "demo"

\* C1: every dataset whose read and parse succeed is in the dataset set right
\* after its read completes, and an uploaded dataset that is in the set stays
\* in it through every step that is not the user's removal of that dataset.
C1_UploadStaysUntilRemoved ==
  [][ /\ \A r \in readers, time \in 0..MaxNow :
           readerOnloadParsed(r, time) =>
             newDataset(r.file, time, r.idx) \in Range(datasets')
      /\ \A i \in 1..Len(datasets) :
           datasets[i].source = "upload" =>
             \/ datasets[i] \in Range(datasets')
             \/ \E confirmed \in BOOLEAN : deleteDataset(datasets[i].id, confirmed)
    ]_vars

\* C2: once the demo dataset is in the dataset set it is in the set after
\* every step (uploads, tab clicks, filter changes, deleteDataset on any id).
C2_DemoNeverRemoved == [][HasDemo(datasets) => HasDemo(datasets')]_vars

\* C2 witness: the demo dataset heads the set, an upload of clock value 0
\* follows it, and the clock has since reached 1; the dataset appended at
\* clock value 1 came after both and is gone, so a confirmed deleteDataset ran
\* while the demo dataset was in the set.
C2_Witness ==
  /\ Len(datasets) = 2
  /\ datasets[1].source = "demo"
  /\ \E f \in Files, idx \in 0..(MaxBatchLen - 1) :
       datasets[2].id = DatasetId(f.name, 0, idx)
  /\ now = 1

\* C3 as claimed: after the demo load has failed, error is non-null and the
\* dataset set is empty.
C3_FailureLeavesSetEmpty ==
  demoPc = "failed" => error # NULL /\ datasets = <<>>

\* C3 amended: after the demo load has failed, error is non-null, the set
\* holds no demo dataset (only completed uploads), and it is empty when no
\* file read was ever started.
C3_FailureSetsErrorAddsNothing ==
  demoPc = "failed" =>
    /\ error # NULL
    /\ ~HasDemo(datasets)
    /\ (started = 0 => datasets = <<>>)

\* C3 witness: the demo load failed after an upload had completed.
C3_Witness == demoPc = "failed" /\ Len(datasets) > 0

\* C4: a reader completes alone; a failing one (read error or parse throw)
\* leaves the dataset set and the active id unchanged and records its file's
\* message, every other reader stays pending, and a reader whose read and
\* parse succeed appends its dataset, whichever order the readers complete in.
C4_FailureDoesNotBlockOthers ==
  [][ \A r \in readers :
        r \notin readers' =>
          /\ readers' = readers \ {r}
          /\ \/ /\ datasets' = datasets
                /\ activeDatasetId' = activeDatasetId
                /\ uploadError' \in {ReadErrorMessage(r.file.name),
                                     ParseErrorMessage(r.file.name)}
             \/ \E time \in 0..MaxNow :
                  datasets' = Append(datasets, newDataset(r.file, time, r.idx))
    ]_vars

\* C4 witness: a file of a batch failed and the batch's second file (idx 1),
\* a different file, is in the set.
C4_Witness ==
  /\ readers = {}
  /\ \E f \in Files, g \in Files, time \in 0..MaxNow :
       /\ g # f
       /\ uploadError \in {ReadErrorMessage(f.name), ParseErrorMessage(f.name)}
       /\ DatasetId(g.name, time, 1) \in Ids(datasets)

\* C5: a failing file's message is not replaced while its batch is the latest
\* upload.  Stated for a run with a single batch: r is the last reader created
\* and belongs to the first batch, so a non-null uploadError names a file of
\* r's own batch; r's completion must leave that message in place.
C5_PerFileMessagesKept ==
  [][ \A r \in readers :
        ( /\ r.reader = started
          /\ r.reader = r.idx + 1
          /\ uploadError # NULL
          /\ r \notin readers' )
        => uploadError' = uploadError
    ]_vars

\* C6: activeDataset is a member of the dataset set when the set is
\* non-empty, and null when it is empty.
C6_ExactlyOneActive ==
  /\ Len(datasets) > 0 => activeDataset \in Range(datasets)
  /\ Len(datasets) = 0 => activeDataset = NoDataset

\* C6 witness: the demo dataset and an upload are loaded and the active
\* dataset is the upload (chosen by a tab click).
C6_Witness ==
  /\ Len(datasets) = 2
  /\ datasets[1].source = "demo"
  /\ activeDataset = datasets[2]

\* Removal of the k-th element of a sequence
RemoveAt(s, k) == [i \in 1..(Len(s) - 1) |-> IF i < k THEN s[i] ELSE s[i + 1]]

\* C7: a declined deleteDataset, or one on an id not in the set, changes
\* neither the set nor the active id; a confirmed one on an uploaded dataset
\* removes exactly that dataset and keeps the others in their order.
C7_DeleteRemovesExactlyOne ==
  [][ \A id \in Ids(datasets) \cup {DEMO_ID, ABSENT_ID}, confirmed \in BOOLEAN :
        deleteDataset(id, confirmed) =>
          IF ~confirmed \/ id \notin Ids(datasets)
          THEN datasets' = datasets /\ activeDatasetId' = activeDatasetId
          ELSE FindById(datasets, id).source = "upload" =>
                 \E k \in 1..Len(datasets) :
                   datasets[k].id = id /\ datasets' = RemoveAt(datasets, k)
    ]_vars

\* C8: with fewer than two datasets the comparison matrix and the trend
\* series are empty, and with an empty trend series the domain is [1, 5].
C8_ComparisonNeedsTwo ==
  /\ Len(datasets) < 2 => comparisonData = <<>> /\ trendLineData = <<>>
  /\ trendLineData = <<>> => trendDomain = <<Rat(1, 1), Rat(5, 1)>>

\* C8 witness: the comparisons view is open on a single dataset that has a
\* score for the selected index.
C8_Witness ==
  /\ Len(datasets) = 1
  /\ viewMode = "comparisons"
  /\ IsPositive(MeanOf(indexScoresByDataset[datasets[1].id], trendIndexKey))

\* ------------------------------------------------- comparator input space
\* Rows of Hall A residents with an RA that answer only Q_OVERALL
OverallRows(cells) ==
  [i \in 1..Len(cells) |-> SurveyRow(HALL_A, YES, cells[i], <<>>)]

\* Overall Experience 41/10 = 4.1
T_2026 ==
  [ id |-> DatasetId(<<"a">>, 0, 0),
    label |-> <<"R","e","s","L","i","f","e","_","2","0","2","6">>,
    rows |-> OverallRows(<< <<"4">>, <<"4">>, <<"4">>, <<"4">>, <<"4">>,
                            <<"4">>, <<"4">>, <<"4">>, <<"4">>, <<"5">> >>),
    source |-> "upload" ]
\* Overall Experience 19/5 = 3.8
T_2025 ==
  [ id |-> DatasetId(<<"b">>, 0, 0),
    label |-> <<"R","e","s","L","i","f","e","_","2","0","2","5">>,
    rows |-> OverallRows(<< <<"4">>, <<"4">>, <<"4">>, <<"4">>, <<"3">> >>),
    source |-> "upload" ]
\* No year in the label; data for Hall B only
T_NOTES ==
  [ id |-> DatasetId(<<"c">>, 0, 0),
    label |-> <<"n","o","t","e","s">>,
    rows |-> << SurveyRow(HALL_B, NO, <<"2">>, <<>>) >>,
    source |-> "upload" ]
\* No year in the label; data for Hall A, for both indices
T_FALL ==
  [ id |-> DatasetId(<<"d">>, 0, 0),
    label |-> <<"F","a","l","l">>,
    rows |-> << SurveyRow(HALL_A, YES, <<"3">>, <<"5">>),
                SurveyRow(HALL_B, YES, <<"1">>, <<"2">>) >>,
    source |-> "upload" ]

FILE_2000 ==
  [ name |-> <<"R","e","s","L","i","f","e","_","2","0","0","0",".","c","s","v">>,
    rows |-> << SurveyRow(HALL_A, YES, <<"4">>, <<"4">>) >> ]
\* A CSV with a header line only
NumberedFile(i) == [ name |-> NatToString(i) \o <<".","c","s","v">>, rows |-> <<>> ]

\* The dataset set after one batch of LongLen files, ResLife_2000.csv first
\* and notes.csv last, was read in selection order at clock value 0
LongBatch ==
  [i \in 1..LongLen |->
     newDataset(IF i = 1 THEN FILE_2000
                ELSE IF i = LongLen THEN FILE_NOTES
                ELSE NumberedFile(i - 1), 0, i - 1)]

\* A second export of the same year, selected together with ResLife_2026.csv
FILE_FALL_2026 ==
  [ name |-> <<"F","a","l","l","_","2","0","2","6",".","c","s","v">>,
    rows |-> << SurveyRow(HALL_A, YES, <<"2">>, <<"3">>) >> ]

TrendPool ==
  { T_2026, T_2025, T_NOTES, T_FALL,
    newDataset(FILE_2026, 0, 0), newDataset(FILE_FALL_2026, 0, 1) }

\* Dataset sets handed to the comparator: any order of distinct pool members,
\* and the long batch
InitTrend ==
  /\ datasets \in {s \in SeqsUpTo(TrendPool, MaxTrendLen) : IsInjective(s)}
                  \cup {LongBatch}
  /\ activeDatasetId = IF Len(datasets) = 0 THEN NULL ELSE datasets[1].id
  /\ hallFilter = ALL
  /\ viewMode = "overview"
  /\ loadingDemo = FALSE
  /\ error = DEMO_NOT_OK
  /\ uploadError = NULL
  /\ trendIndexKey = "overallExperience"
  /\ demoPc = "failed"
  /\ readers = {}
  /\ started = Len(datasets)
  /\ now = 0

NextTrend ==
  \/ \E value \in {ALL, HALL_A, HALL_B} : handleHallFilterChange(value)
  \/ \E mode \in {"overview", "comparisons"} : setViewMode(mode)
  \/ \E key \in TrendKeys : setTrendIndexKey(key)

SpecTrend == InitTrend /\ [][NextTrend]_vars

\* The dataset's own score for the selected index under the hall filter
OwnScore(ds) ==
  ToFixed2(MeanOf(computeIndexScores(filterRowsByHall(ds.rows, hallFilter)),
                  trendIndexKey))

\* The trend entry the i-th dataset gives
TrendEntry(i) ==
  [ datasetLabel |-> datasets[i].label,
    order |-> extractYearOrOrder(datasets[i].label, i - 1),
    score |-> OwnScore(datasets[i]) ]

WithData == {i \in 1..Len(datasets) : OwnScore(datasets[i]) # Zero}

HasYear(label) == YearMatch(label) # 0
EntryHasYear(r) == HasYear(r.datasetLabel)
EntryHasNoYear(r) == ~HasYear(r.datasetLabel)

\* The entries of the datasets that have data and no year, in the order in
\* which the datasets were added
NoYearInAddedOrder ==
  LET HasDataNoYear(r) == r.score # Zero /\ EntryHasNoYear(r)
  IN SelectSeq([i \in 1..Len(datasets) |-> TrendEntry(i)], HasDataNoYear)

\* C10: in the trend series a dataset whose label has a year carries that
\* year as its order key, every dataset without a year stands before every
\* dataset with one, and the datasets without a year stand in the order in
\* which they were added.
C10_TrendOrderFromLabels ==
  Len(datasets) >= 2 =>
    /\ \A k \in 1..Len(trendLineData) :
         EntryHasYear(trendLineData[k]) =>
           LET label == trendLineData[k].datasetLabel
               m == YearMatch(label)
           IN trendLineData[k].order = ParseDigits(SubSeq(label, m, m + 3))
    /\ \A k, l \in 1..Len(trendLineData) :
         EntryHasNoYear(trendLineData[k]) /\ EntryHasYear(trendLineData[l]) => k < l
    /\ SelectSeq(trendLineData, EntryHasNoYear) = NoYearInAddedOrder

\* ------------------------------------------------- aggregation input space
Q_OVERALL2 == INDEXES[6].questions[2]
Q_OVERALL3 == INDEXES[6].questions[3]
HALL_C == <<"H","a","l","l"," ","C">>

\* Two Hall A residents, one with an RA and one without
ROW_A_YES_5 == SurveyRow(HALL_A, YES, <<"5">>, <<"4">>)
ROW_A_NO_3 == SurveyRow(HALL_A, NO, <<"3">>, <<"2">>)
\* The same two residents answering the first Overall Experience question only
ROW_Q1_YES_5 == SurveyRow(HALL_A, YES, <<"5">>, <<>>)
ROW_Q1_NO_3 == SurveyRow(HALL_A, NO, <<"3">>, <<>>)
\* A row that answers the second and third Overall Experience question only
ROW_MEANS == SurveyRow(HALL_B, NO, UNDEFINED, <<>>)
               @@ (Q_OVERALL2 :> <<"4">>) @@ (Q_OVERALL3 :> <<"2">>)

\* Parsed rows a CSV can hold: padded, blank and missing cells, answers
\* outside 1..5, text, and a decimal answer
RowPool ==
  { ROW_A_YES_5,
    ROW_A_NO_3,
    ROW_Q1_YES_5,
    ROW_Q1_NO_3,
    ROW_MEANS,
    SurveyRow(<<" ">> \o HALL_A \o <<" ">>, <<" ","Y","e","s"," ">>, <<" ","4"," ">>, <<"3",".","5">>),
    SurveyRow(HALL_B, YES, <<"0">>, <<"6">>),
    SurveyRow(HALL_B, <<>>, <<"a","b","c">>, <<"1">>),
    SurveyRow(NULL, NULL, NULL, UNDEFINED),
    SurveyRow(<<>>, YES, <<>>, <<"5">>) }

AGG_FILE_NAME == <<"s","u","r","v","e","y",".","c","s","v">>

\* One uploaded dataset with any rows of the pool; the demo fetch has failed
InitAgg ==
  /\ datasets \in {<<newDataset([name |-> AGG_FILE_NAME, rows |-> rows], 0, 0)>> :
                     rows \in SeqsUpTo(RowPool, MaxRows)}
  /\ activeDatasetId = datasets[1].id
  /\ hallFilter = ALL
  /\ viewMode = "overview"
  /\ loadingDemo = FALSE
  /\ error = DEMO_NOT_OK
  /\ uploadError = NULL
  /\ trendIndexKey = "overallExperience"
  /\ demoPc = "failed"
  /\ readers = {}
  /\ started = 1
  /\ now = 0

NextAgg ==
  \/ \E value \in {ALL, HALL_A, HALL_B} : handleHallFilterChange(value)
  \/ \E mode \in {"overview", "comparisons"} : setViewMode(mode)

SpecAgg == InitAgg /\ [][NextAgg]_vars

\* Every row of every dataset
AllRows == UNION {Range(datasets[i].rows) : i \in 1..Len(datasets)}

\* Every cell value a row can hand to toLikert: its cells, and undefined for a
\* column it lacks
CellValues == UNION {{r[c] : c \in DOMAIN r} : r \in AllRows} \cup {UNDEFINED}

IsLikertInteger(x) == \E k \in 1..5 : x = Rat(k, 1)

\* C11: for every cell value v, toLikert(v) is one of the integers 1..5 or
\* null; it is null for null, undefined, "", "0", "6" and "abc"; a decimal
\* inside the range such as "3.5" does not give a score outside {1,...,5}.
C11_LikertIntegerOrNull ==
  \A v \in CellValues :
    /\ toLikert(v) = NULL \/ IsLikertInteger(toLikert(v))
    /\ v \in {NULL, UNDEFINED, <<>>, <<"0">>, <<"6">>, <<"a","b","c">>}
         => toLikert(v) = NULL

\* Row sets handed to the aggregators: each dataset's rows, unfiltered and
\* under the hall filter
RowSets ==
  UNION {{datasets[i].rows, filterRowsByHall(datasets[i].rows, hallFilter)} :
           i \in 1..Len(datasets)}

\* Question lists handed to computeQuestionMeans: those of INDEXES, the empty
\* list, and lists that reorder and repeat questions
QuestionLists ==
  {INDEXES[i].questions : i \in 1..Len(INDEXES)}
    \cup {<<>>, <<Q_RA, Q_OVERALL>>, <<Q_OVERALL3, Q_OVERALL, Q_OVERALL3>>}

\* The rows that are eligible and hold a valid response to question q
ValidResponses(rows, q, filtered) ==
  {k \in 1..Len(rows) :
     /\ filtered => rowFilter(rows[k])
     /\ toLikert(Cell(rows[k], q)) # NULL}

\* C12: computeQuestionMeans returns one entry per input question, in the
\* input order and with the same question text; a question with no valid
\* response is emitted with mean 0.
C12_OneEntryPerQuestion ==
  \A rows \in RowSets, questions \in QuestionLists, filtered \in BOOLEAN :
    LET out == computeQuestionMeans(rows, questions, filtered)
    IN /\ Len(out) = Len(questions)
       /\ \A i \in 1..Len(questions) :
            /\ out[i].question = questions[i]
            /\ ValidResponses(rows, questions[i], filtered) = {}
                 => out[i].mean = Zero

\* C12 witness: under a hall filter the shown rows answer the first Overall
\* Experience question and leave the second one unanswered.
C12_Witness ==
  /\ hallFilter # ALL
  /\ ValidResponses(filteredRows, Q_OVERALL, FALSE) # {}
  /\ ValidResponses(filteredRows, Q_OVERALL2, FALSE) = {}
  /\ Len(perIndexQuestions["overallExperience"]) = 4
  /\ perIndexQuestions["overallExperience"][2].mean = Zero

\* 0, or a value in [1, 5]
ZeroOrInRange(m) == m = Zero \/ (RatLE(Rat(1, 1), m) /\ RatLE(m, Rat(5, 1)))

\* C13: every question mean and every index mean is 0 or lies in [1, 5]; a
\* question mean is 0 exactly when no eligible row has a valid response to the
\* question, and an index mean is 0 exactly when none of its questions has one.
C13_MeansZeroOrInRange ==
  \A rows \in RowSets, i \in 1..Len(INDEXES) :
    LET idx == INDEXES[i]
        qs == computeQuestionMeans(rows, idx.questions, idx.hasRowFilter)
        score == computeIndexScores(rows)[i].mean
        NoData(j) == ValidResponses(rows, idx.questions[j], idx.hasRowFilter) = {}
    IN /\ \A j \in 1..Len(qs) :
            /\ ZeroOrInRange(qs[j].mean)
            /\ qs[j].mean = Zero <=> NoData(j)
       /\ ZeroOrInRange(score)
       /\ score = Zero <=> \A j \in 1..Len(idx.questions) : NoData(j)

\* C13 witness: the shown rows give Overall Experience a mean that is not a
\* whole number, from one answered and three unanswered questions, while
\* Professional Staff has no data.
C13_Witness ==
  /\ Len(filteredRows) = 2
  /\ MeanOf(activeIndexScores, "overallExperience") = Rat(7, 2)
  /\ perIndexQuestions["overallExperience"][2].mean = Zero
  /\ MeanOf(activeIndexScores, "staff") = Zero

\* The sum of the means of the entries of qs at the positions in S
RECURSIVE SumOfMeans(_, _)
SumOfMeans(qs, S) ==
  IF S = {} THEN Zero
  ELSE LET j == CHOOSE k \in S : TRUE
       IN RatAdd(qs[j].mean, SumOfMeans(qs, S \ {j}))

\* C14: an index mean is the arithmetic mean of the question means of that
\* index that are above 0, and 0 when there is none; question means 0, 4, 2
\* (and no other data) give the index mean 3, not 2.
C14_IndexMeanOverPositive ==
  \A rows \in RowSets, i \in 1..Len(INDEXES) :
    LET idx == INDEXES[i]
        qs == computeQuestionMeans(rows, idx.questions, idx.hasRowFilter)
        positive == {j \in 1..Len(qs) : RatLT(Zero, qs[j].mean)}
        score == computeIndexScores(rows)[i]
    IN /\ score.key = idx.key
       /\ score.mean = IF positive = {} THEN Zero
                       ELSE RatDivNat(SumOfMeans(qs, positive), Cardinality(positive))
       /\ ( /\ idx.key = "overallExperience"
            /\ [j \in 1..Len(qs) |-> qs[j].mean]
                 = <<Zero, Rat(4, 1), Rat(2, 1), Zero>> )
            => score.mean = Rat(3, 1)

\* C14 witness: the shown rows give the Overall Experience questions the
\* means 0, 4, 2 and 0, and the index mean shown is 3.
C14_Witness ==
  /\ [j \in 1..4 |-> perIndexQuestions["overallExperience"][j].mean]
       = <<Zero, Rat(4, 1), Rat(2, 1), Zero>>
  /\ MeanOf(activeIndexScores, "overallExperience") = Rat(3, 1)

\* Hall values handed to filterRowsByHall: the sentinel, halls of the pool, a
\* hall no row names, a padded name and the empty string
HallInputs == {ALL, HALL_A, HALL_B, HALL_C, <<" ">> \o HALL_A \o <<" ">>, <<>>}

\* The positions of the rows whose trimmed building value is hall
InHallAt(rows, hall) ==
  {k \in 1..Len(rows) : TrimmedCell(Cell(rows[k], COL_BUILDING)) = hall}

\* C15: filterRowsByHall(rows, "ALL") returns rows unchanged; for a hall that
\* no row's trimmed building value equals it returns the empty list; for any
\* other hall it returns exactly the rows whose trimmed building value equals
\* the hall, in their original order.
C15_HallFilterSelects ==
  \A i \in 1..Len(datasets), hall \in HallInputs :
    LET rows == datasets[i].rows
        out == filterRowsByHall(rows, hall)
        match == InHallAt(rows, hall)
    IN /\ hall = ALL => out = rows
       /\ hall # ALL =>
            /\ match = {} => out = <<>>
            /\ Len(out) = Cardinality(match)
            /\ \A k \in 1..Len(out) :
                 out[k] = rows[CHOOSE m \in match :
                                 Cardinality({n \in match : n <= m}) = k]

\* C15 witness: under the filter "Hall A" the first row of the active dataset
\* is dropped and the second, whose building cell is padded, is kept.
C15_Witness ==
  /\ hallFilter = HALL_A
  /\ Len(activeDataset.rows) = 2
  /\ filteredRows = <<activeDataset.rows[2]>>
  /\ Cell(activeDataset.rows[2], COL_BUILDING) # HALL_A

RA_SUPPORT == INDEXES[3]

\* The sum of the scores of question q over the rows at the positions in S
RECURSIVE SumOfScores(_, _, _)
SumOfScores(rows, q, S) ==
  IF S = {} THEN Zero
  ELSE LET k == CHOOSE m \in S : TRUE
       IN RatAdd(toLikert(Cell(rows[k], q)), SumOfScores(rows, q, S \ {k}))

\* The mean of the valid responses to q of the rows at the positions in S
MeanOver(rows, q, S) ==
  LET answered == {k \in S : toLikert(Cell(rows[k], q)) # NULL}
  IN IF answered = {} THEN Zero
     ELSE RatDivNat(SumOfScores(rows, q, answered), Cardinality(answered))

\* The positions of the rows that pass the hall filter
PassHall(rows) ==
  {k \in 1..Len(rows) :
     hallFilter = ALL \/ TrimmedCell(Cell(rows[k], COL_BUILDING)) = hallFilter}

\* The positions of the rows whose trimmed RA-assigned value is "Yes"
HasRA(rows) ==
  {k \in 1..Len(rows) : TrimmedCell(Cell(rows[k], COL_RA_ASSIGNED)) = YES}

\* C16: under the hall filter each RA Support question mean, and so the RA
\* Support index mean, is computed over exactly the rows that pass the hall
\* filter and whose RA-assigned value is "Yes" after trimming.
C16_RASupportEligibleRowsOnly ==
  /\ activeDataset # NoDataset =>
       \A j \in 1..Len(RA_SUPPORT.questions) :
         LET rows == activeDataset.rows
         IN perIndexQuestions["raSupport"][j].mean
              = MeanOver(rows, RA_SUPPORT.questions[j], PassHall(rows) \cap HasRA(rows))
  /\ \A i \in 1..Len(datasets) :
       LET rows == datasets[i].rows
           means == [j \in 1..Len(RA_SUPPORT.questions) |->
                       [mean |-> MeanOver(rows, RA_SUPPORT.questions[j],
                                          PassHall(rows) \cap HasRA(rows))]]
           positive == {j \in 1..Len(means) : RatLT(Zero, means[j].mean)}
       IN MeanOf(computeIndexScores(filterRowsByHall(rows, hallFilter)), "raSupport")
            = IF positive = {} THEN Zero
              ELSE RatDivNat(SumOfMeans(means, positive), Cardinality(positive))

\* C16 witness: both rows shown under "Hall A" answer the first RA Support
\* question, with 4 and 2; the resident without an RA is left out and the
\* mean shown is 4, not 3.
C16_Witness ==
  /\ hallFilter = HALL_A
  /\ filteredRows = <<ROW_A_YES_5, ROW_A_NO_3>>
  /\ perIndexQuestions["raSupport"][1].mean = Rat(4, 1)
  /\ MeanOf(activeIndexScores, "raSupport") = Rat(4, 1)

\* C17: an index without an eligibility predicate takes the rows that pass
\* the hall filter whatever their RA-assigned value; the rows {Hall A, Q1 "5",
\* RA Yes} and {Hall A, Q1 "3", RA No}, Q1 being the only answered question,
\* give the index of Q1 the mean 4 under the filter "Hall A".
C17_OtherIndicesIgnoreRA ==
  \A d \in 1..Len(datasets), i \in 1..Len(INDEXES) :
    ~INDEXES[i].hasRowFilter =>
      LET idx == INDEXES[i]
          rows == datasets[d].rows
          means == [j \in 1..Len(idx.questions) |->
                      [mean |-> MeanOver(rows, idx.questions[j], PassHall(rows))]]
          positive == {j \in 1..Len(means) : RatLT(Zero, means[j].mean)}
          score == MeanOf(indexScoresByDataset[datasets[d].id], idx.key)
      IN /\ score = IF positive = {} THEN Zero
                    ELSE RatDivNat(SumOfMeans(means, positive), Cardinality(positive))
         /\ datasets[d] = activeDataset =>
              \A j \in 1..Len(idx.questions) :
                perIndexQuestions[idx.key][j].mean = means[j].mean
         /\ ( /\ rows = <<ROW_Q1_YES_5, ROW_Q1_NO_3>>
              /\ hallFilter = HALL_A
              /\ idx.key = "overallExperience" )
              => score = Rat(4, 1)

\* C17 witness: the two example rows are shown under the filter "Hall A" and
\* Overall Experience reads 4 while RA Support has no data.
C17_Witness ==
  /\ hallFilter = HALL_A
  /\ activeDataset.rows = <<ROW_Q1_YES_5, ROW_Q1_NO_3>>
  /\ MeanOf(activeIndexScores, "overallExperience") = Rat(4, 1)
  /\ MeanOf(activeIndexScores, "raSupport") = Zero

\* The positions of the rows whose trimmed RA-assigned value is not empty
AnsweredRA(rows) ==
  {k \in 1..Len(rows) : TrimmedCell(Cell(rows[k], COL_RA_ASSIGNED)) # <<>>}

\* C19: raYesRate is the number of shown rows whose trimmed RA-assigned value
\* is "Yes" divided by the number of shown rows whose trimmed RA-assigned
\* value is not empty; rows with an empty value count in neither; it is 0
\* when no shown row has a non-empty value.
C19_RaYesRate ==
  LET yes == Cardinality(HasRA(filteredRows))
      total == Cardinality(AnsweredRA(filteredRows))
  IN /\ total = 0 => raYesRate = Zero
     /\ total > 0 => raYesRate[1] * total = yes * raYesRate[2]
     /\ raYesRate = Rat(raYesRate[1], raYesRate[2])

\* C19 witness: of the two rows shown one has an RA and one left the RA
\* question blank, and the rate is 1.
C19_Witness ==
  /\ Len(filteredRows) = 2
  /\ Cardinality(AnsweredRA(filteredRows)) = 1
  /\ raYesRate = Rat(1, 1)

\* The dataset's own score for index idx under the hall filter, as charted
OwnIndexScore(ds, idx) ==
  ToFixed2(MeanOf(computeIndexScores(filterRowsByHall(ds.rows, hallFilter)),
                  idx.key))

\* C18: with two or more datasets each of the six rows of the comparison
\* matrix holds every dataset's own score for that index, rounded to two
\* decimals, in a column of its own; datasets with the same inferred label
\* stay independent, neither one's score being lost or overwritten.
C18_ComparisonKeepsEveryScore ==
  Len(datasets) >= 2 =>
    /\ Len(comparisonData) = Len(INDEXES)
    /\ \A i \in 1..Len(INDEXES) :
         LET row == comparisonData[i]
         IN /\ row[INDEX_KEY] = INDEXES[i].label
            /\ Cardinality(DOMAIN row \ {INDEX_KEY}) = Len(datasets)
            /\ \A d \in 1..Len(datasets) :
                 /\ datasets[d].label \in DOMAIN row
                 /\ row[datasets[d].label] = OwnIndexScore(datasets[d], INDEXES[i])

\* -------------------------------------------------------- upload appends
\* C20: once the demo dataset is loaded, a step either leaves the dataset
\* set as it is, or is a deletion, or appends the whole dataset of exactly
\* one completing reader at the end; so after k successful reads without a
\* deletion the set is the previous set followed by those k datasets in
\* completion order, and no state holds a partially added dataset.
C20_AppendsAtomicInCompletionOrder ==
  [][ demoPc = "loaded" =>
        \/ datasets' = datasets
        \/ \E id \in Ids(datasets) :
             LET Other(d) == d.id # id
             IN /\ FindById(datasets, id).source = "upload"
                /\ datasets' = SelectSeq(datasets, Other)
        \/ \E r \in readers, time \in 0..MaxNow :
             /\ readers' = readers \ {r}
             /\ datasets' = Append(datasets, newDataset(r.file, time, r.idx))
    ]_vars

\* C20 witness: with the demo loaded first, the two files of one batch were
\* read in the opposite order to the one they were selected in, and the set
\* is the demo dataset followed by the two datasets in completion order.
C20_Witness ==
  /\ demoPc = "loaded"
  /\ readers = {}
  /\ \E f \in Files, g \in Files, t1 \in 0..MaxNow, t2 \in 0..MaxNow :
       /\ g # f
       /\ t1 <= t2
       /\ datasets = <<demoDataset, newDataset(g, t1, 1), newDataset(f, t2, 0)>>

\* ------------------------------------------------------------ idempotence
\* C21: the hall filter is idempotent: for any rows and any hall value h,
\* "ALL" included, filtering the filtered rows by h again changes nothing.
C21_HallFilterIdempotent ==
  \A i \in 1..Len(datasets), hall \in HallInputs :
    LET once == filterRowsByHall(datasets[i].rows, hall)
    IN filterRowsByHall(once, hall) = once

\* C21 witness: under "Hall B" one of the two rows of the active dataset is
\* shown, and filtering the shown rows again gives the same row.
C21_Witness ==
  /\ hallFilter = HALL_B
  /\ Len(activeDataset.rows) = 2
  /\ Len(filteredRows) = 1
  /\ filterRowsByHall(filteredRows, hallFilter) = filteredRows

\* ------------------------------------------------------------ trend domain
\* C22: for a non-empty trend series the Y-axis domain is
\* [max(1, min(scores) - 0.2), min(5, max(scores) + 0.2)]; its lower bound is
\* at least 1, its upper bound at most 5, the lower bound does not exceed the
\* upper bound, and every score of the series lies inside the domain.
C22_TrendDomainBounds ==
  LET series == trendLineData
      domain == trendDomain
      scores == {series[k].score : k \in 1..Len(series)}
      least == CHOOSE x \in scores : \A y \in scores : RatLE(x, y)
      most == CHOOSE x \in scores : \A y \in scores : RatLE(y, x)
      below == RatSub(least, Rat(1, 5))
      above == RatAdd(most, Rat(1, 5))
  IN Len(series) > 0 =>
       /\ domain[1] = IF RatLT(below, Rat(1, 1)) THEN Rat(1, 1) ELSE below
       /\ domain[2] = IF RatLT(Rat(5, 1), above) THEN Rat(5, 1) ELSE above
       /\ RatLE(Rat(1, 1), domain[1])
       /\ RatLE(domain[2], Rat(5, 1))
       /\ RatLE(domain[1], domain[2])
       /\ \A x \in scores : RatLE(domain[1], x) /\ RatLE(x, domain[2])

\* C22 witness: the series holds the scores 2 and 1, and the domain is
\* [1, 2.2], its lower bound clamped at 1.
C22_Witness ==
  /\ Len(trendLineData) = 2
  /\ {trendLineData[k].score : k \in 1..2} = {Rat(1, 1), Rat(2, 1)}
  /\ trendDomain = <<Rat(1, 1), Rat(22, 10)>>

\* ----------------------------------------------------- free-text input space
\* One parsed CSV row with a building and the three open-ended answers
TextRow(building, positive, improve, comments) ==
  (COL_BUILDING :> building) @@ (COL_POSITIVE :> positive)
    @@ (COL_IMPROVE :> improve) @@ (COL_COMMENTS :> comments)

\* Answers in row order: repeats, a padded repeat, blanks, a missing cell and
\* two answers that differ in case only; seven distinct answers in all
TEXT_CELLS ==
  << <<"R","A","s">>, <<" ","R","A","s"," ">>, <<>>, <<"f","o","o","d">>, NULL,
     <<"F","o","o","d">>, <<"p","o","o","l">>, <<"R","A","s">>, <<"g","y","m">>,
     <<"w","i","f","i">>, <<" "," ">>, <<"e","v","e","n","t","s">> >>

\* The rows of the free-text export: halls alternate, the second column holds
\* the answers in reverse order, the third holds them padded
TextRows ==
  [i \in 1..Len(TEXT_CELLS) |->
     LET cell == TEXT_CELLS[i]
     IN TextRow(IF i % 2 = 1 THEN HALL_A ELSE HALL_B,
                cell,
                TEXT_CELLS[Len(TEXT_CELLS) + 1 - i],
                IF IsNullish(cell) THEN UNDEFINED ELSE <<"\t">> \o cell \o <<" ">>)]

TEXT_FILE_NAME == <<"c","o","m","m","e","n","t","s",".","c","s","v">>

\* One uploaded dataset holding any run of consecutive rows of the export
InitText ==
  /\ datasets \in {<<newDataset([name |-> TEXT_FILE_NAME,
                                 rows |-> SubSeq(TextRows, i, j)], 0, 0)>> :
                     i \in 1..Len(TextRows), j \in 0..Len(TextRows)}
  /\ activeDatasetId = datasets[1].id
  /\ hallFilter = ALL
  /\ viewMode = "overview"
  /\ loadingDemo = FALSE
  /\ error = DEMO_NOT_OK
  /\ uploadError = NULL
  /\ trendIndexKey = "overallExperience"
  /\ demoPc = "failed"
  /\ readers = {}
  /\ started = 1
  /\ now = 0

SpecText == InitText /\ [][NextAgg]_vars

OpenEndedColumns == {COL_POSITIVE, COL_IMPROVE, COL_COMMENTS}

\* The positions at which a non-empty trimmed value of the column occurs for
\* the first time
FirstOccurrences(rows, colName) ==
  {k \in 1..Len(rows) :
     LET v == TrimmedCell(Cell(rows[k], colName))
     IN /\ v # <<>>
        /\ \A j \in 1..(k - 1) : TrimmedCell(Cell(rows[j], colName)) # v}

\* C23: for any rows and open-ended column sampleText returns at most 5
\* values, all non-empty and trimmed, pairwise distinct by exact string
\* equality, and exactly the first (up to 5) distinct non-empty trimmed values
\* of the column in row order.
C23_SampleTextFirstFiveDistinct ==
  \A rows \in RowSets, colName \in OpenEndedColumns :
    LET out == sampleText(rows, colName, 5)
        first == FirstOccurrences(rows, colName)
    IN /\ Len(out) <= 5
       /\ \A n \in 1..Len(out) : out[n] # <<>> /\ Trim(out[n]) = out[n]
       /\ \A m, n \in 1..Len(out) : out[m] = out[n] => m = n
       /\ Len(out) = IF Cardinality(first) < 5 THEN Cardinality(first) ELSE 5
       /\ \A n \in 1..Len(out) :
            out[n] = TrimmedCell(Cell(rows[CHOOSE k \in first :
                                             Cardinality({j \in first : j <= k}) = n],
                                      colName))

\* C23 witness: the shown rows hold more than five distinct answers and a
\* repeat among the first ones; five samples are shown, "Food" after "food".
C23_Witness ==
  /\ Cardinality(FirstOccurrences(filteredRows, COL_POSITIVE)) > 5
  /\ positiveSamples = << <<"R","A","s">>, <<"f","o","o","d">>, <<"F","o","o","d">>,
                          <<"p","o","o","l">>, <<"g","y","m">> >>
  /\ Len(improveSamples) = 5
  /\ Len(commentSamples) = 5

\* --------------------------------------------------------- state invariants
\* C24: the stored active id never dangles: activeDatasetId is null exactly
\* when the dataset set is empty, and otherwise it is the id of a dataset in
\* the set.
C24_ActiveIdNeverDangles ==
  /\ activeDatasetId = NULL <=> Len(datasets) = 0
  /\ activeDatasetId # NULL => activeDatasetId \in Ids(datasets)

\* C24 witness: both files of a batch were read, one of the two datasets was
\* removed by a confirmed deletion, and the one left, the batch's second
\* file, is the active dataset.
C24_Witness ==
  /\ demoPc = "failed"
  /\ started = 2
  /\ readers = {}
  /\ uploadError = NULL
  /\ Len(datasets) = 1
  /\ \E f \in Files, time \in 0..MaxNow : datasets[1].id = DatasetId(f.name, time, 1)
  /\ activeDatasetId = datasets[1].id

\* C25: the selected hall filter is always selectable: hallFilter is "ALL" or
\* a hall that occurs in at least one dataset of the current set.
C25_HallFilterSelectable == hallFilter = ALL \/ hallFilter \in hallOptions

\* C26: dataset ids are unique: no two datasets of the set have the same id,
\* also when the same file name is uploaded again in a later batch, so that
\* indexScoresByDataset has one entry per dataset.
C26_IdsUnique ==
  /\ \A i, j \in 1..Len(datasets) : datasets[i].id = datasets[j].id => i = j
  /\ Cardinality(DOMAIN indexScoresByDataset) = Len(datasets)

\* ---------------------------------------------------------------- liveness
\* The steps of loadDemo: the effect runs once after mount, and the fetch and
\* res.text() promises are taken to settle
loadDemoStep ==
  \/ loadDemoStart
  \/ loadDemoResponseOk
  \/ loadDemoSuccess
  \/ loadDemoFailure

SpecLive == Init /\ [][Next]_vars /\ WF_vars(loadDemoStep)

\* C27: loadingDemo becomes true when the demo load starts and then, the
\* fetch settling, becomes false and stays false, whether the load succeeds,
\* the response is not OK or parsing throws; once the load is over the demo
\* dataset is in the set or error is not null.
C27_LoadingEventuallyCleared ==
  /\ <>loadingDemo
  /\ [](loadingDemo => demoPc \in {"fetch", "text"})
  /\ <>[](~loadingDemo)
  /\ [](demoPc \in {"loaded", "failed"}
          => ~loadingDemo /\ (HasDemo(datasets) \/ error # NULL))

\* C27 witness: the fetch was rejected with an error that has no message; the
\* indicator is off and the fallback message is shown.
C27_Witness ==
  /\ demoPc = "failed"
  /\ ~loadingDemo
  /\ ~HasDemo(datasets)
  /\ error = DEMO_FALLBACK

====
